---------------------------- MODULE Spec2Model ----------------------------
(***************************************************************************)
(* Model of the CI support scripts of cobol-check-automatisation:          *)
(*   .github/scripts/generate_report.py  (the report generator) and        *)
(*   .github/scripts/analyze_metrics.py  (the metrics analysis).           *)
(*                                                                         *)
(* The state is the results directory on disk (the per-subject result      *)
(* files, the other *.txt files, test_report.html, advanced_metrics.txt,   *)
(* metrics_history.json, the archive tree), the wall clock, and the        *)
(* position and locals of one report-generator process and one             *)
(* metrics-analysis process.                                               *)
(***************************************************************************)
EXTENDS Integers, Sequences, FiniteSets, TLC

VARIABLES
    dirExists,      \* the results directory exists
    resultFiles,    \* subject -> [exists, text]: <SUBJECT>_results.txt
    otherTxt,       \* names of the other *.txt files of the directory
    htmlReport,     \* test_report.html: [exists, doc]
    metricsReport,  \* advanced_metrics.txt: [exists, doc]
    historyFile,    \* metrics_history.json: [exists, text]
    archive,        \* archive/: [exists, runs]; runs: second -> run directory
    clock,          \* wall clock: [sec, usec]
    pc,             \* process -> position in its main()
    locals,         \* process -> local variables of its main()
    exitCode,       \* process -> exit status of its last finished run
    runs            \* process -> number of invocations started so far

vars == <<dirExists, resultFiles, otherTxt, htmlReport, metricsReport,
          historyFile, archive, clock, pc, locals, exitCode, runs>>

disk == <<dirExists, resultFiles, otherTxt, htmlReport, metricsReport,
          historyFile, archive>>

-----------------------------------------------------------------------------
(* Bounds of the model *)

MaxRuns == 2        \* invocations of the two scripts, taken together
MaxSec == 1         \* seconds the wall clock can advance
MaxShort == 2       \* short stored histories have 0..MaxShort entries
MaxOver == 1        \* long stored histories have up to HISTORY_CAP + MaxOver entries
MaxTests == 6       \* totalTests of the records the analysis functions are tried on
MaxCoverage == 100  \* coverage, a percentage, of those records
MaxTrendLen == 3    \* length of the histories analyze_trends is tried on

(* Program constants *)

HISTORY_CAP == 100  \* history[-100:]
LOW_MAX == 5        \* test_density <= 5  -> LOW
MEDIUM_MAX == 20    \* test_density <= 20 -> MEDIUM
PATHS_SPLIT == 10   \* test_count < 10 -> "n-2n"
LOW_COVERAGE == 80  \* coverage < 80 -> recommendation
QUALITY_MAX == 100  \* min(100, int(quality_index))

Subjects == <<"NUMBERS", "EMPPAY", "DEPTPAY">>
SubjectSet == {Subjects[i] : i \in 1..Len(Subjects)}

(***************************************************************************)
(* Python's float is an IEEE double: converting an int above               *)
(* sys.float_info.max (about 1.8 * 10^308) raises OverflowError.  TLC's    *)
(* integers cannot hold such a number, so the model scales the limit down: *)
(* every numeral of a result file is either small (far below FloatMax) or  *)
(* Huge, which stands for a numeral of some 400 digits: it stays above the *)
(* limit when divided by a test count or by the number of subjects.        *)
(***************************************************************************)
FloatMax == 10 ^ 5
Huge == FloatMax * 1000

RECURSIVE SumRange(_, _, _)
\* s[lo] + ... + s[hi], halving the range
SumRange(s, lo, hi) ==
    IF lo > hi THEN 0
    ELSE IF lo = hi THEN s[lo]
    ELSE SumRange(s, lo, (lo + hi) \div 2) + SumRange(s, (lo + hi) \div 2 + 1, hi)

\* sum(s)
SumSeq(s) == SumRange(s, 1, Len(s))

\* the members of a set of subjects, in the order of the fixed subject list
SetToSeq(S) == SelectSeq(Subjects, LAMBDA x : x \in S)

Abs(x) == IF x < 0 THEN -x ELSE x

\* round(p / q) to the nearest integer, ties to even, for p >= 0 and q > 0
RoundHalfEven(p, q) ==
    LET fl == p \div q
        r2 == 2 * (p % q)
    IN  IF r2 > q THEN fl + 1
        ELSE IF r2 < q THEN fl
        ELSE IF fl % 2 = 0 THEN fl ELSE fl + 1

-----------------------------------------------------------------------------
(* Python values *)

\* the outcome of a call: a returned value or a raised exception
Return(v) == [raised |-> FALSE, exc |-> "", value |-> v]
Raise(e) == [raised |-> TRUE, exc |-> e, value |-> 0]

\* float(n) of an int n: OverflowError above the largest double
FloatOverflows(n) == Abs(n) > FloatMax

\* a / b of two ints (true division): the exception it raises, "" if none
TrueDivError(a, b) ==
    IF b = 0 THEN "ZeroDivisionError"
    ELSE IF FloatOverflows(a \div b) THEN "OverflowError"
    ELSE ""

-----------------------------------------------------------------------------
(* The text of a result file.  The scripts read it with regular            *)
(* expressions only, label by label, so the text is modelled as the        *)
(* sequence of its labelled numerals: the label before the colon, whether  *)
(* white space follows the colon, the digits, and whether a percent sign   *)
(* follows the digits.                                                     *)

Labels == {"Total Test Cases", "Tests Passed", "Tests Failed",
           "Code Coverage", "Test Quality Score"}

Entry(label, ws, num, pct) == [label |-> label, ws |-> ws, num |-> num, pct |-> pct]

NoFile == [exists |-> FALSE, text |-> <<>>]
File(text) == [exists |-> TRUE, text |-> text]

\* re.search: the numeral of the first place of the text the pattern matches
FirstMatch(text, label, space, percent) ==
    LET Matches(e) == /\ e.label = label
                      /\ space => e.ws
                      /\ percent => e.pct
        hits == SelectSeq(text, Matches)
    IN  IF hits = <<>> THEN 0 ELSE hits[1].num

\* generate_report.py: pattern + r'\s+(\d+)', the pattern ending in a colon
extract_number(text, label) ==
    FirstMatch(text, label, TRUE, FALSE)

\* generate_report.py: pattern + r'\s+(\d+)%'
extract_percentage(text, label) ==
    FirstMatch(text, label, TRUE, TRUE)

\* analyze_metrics.py: pattern + r':\s*(\d+)'
extract_metric(text, label) ==
    FirstMatch(text, label, FALSE, FALSE)

\* the subjects whose result file exists
Present(files) == {s \in SubjectSet : files[s].exists}

parse_test_results(files) ==
    [s \in Present(files) |->
        [total_tests   |-> extract_number(files[s].text, "Total Test Cases"),
         passed        |-> extract_number(files[s].text, "Tests Passed"),
         failed        |-> extract_number(files[s].text, "Tests Failed"),
         coverage      |-> extract_percentage(files[s].text, "Code Coverage"),
         quality_score |-> extract_percentage(files[s].text, "Test Quality Score")]]

\* the parsing loop of analyze_metrics.py's main()
parse_current_results(files) ==
    [s \in Present(files) |->
        [total_tests   |-> extract_metric(files[s].text, "Total Test Cases"),
         passed        |-> extract_metric(files[s].text, "Tests Passed"),
         coverage      |-> extract_metric(files[s].text, "Code Coverage"),
         quality_score |-> extract_metric(files[s].text, "Test Quality Score")]]

\* sum(p[field] for p in programs_data.values())
SumField(programs_data, field) ==
    SumSeq([i \in 1..Len(SetToSeq(DOMAIN programs_data)) |->
              programs_data[SetToSeq(DOMAIN programs_data)[i]][field]])

\* the mean taken over the fixed list of subjects, not over those present
TruncatedMeanOfAll(total, n) == IF n = 0 THEN 0 ELSE total \div Len(Subjects)

\* sum(...) / len(programs_data) if programs_data else 0, then int(): the
\* quotient is a double, exact enough below FloatMax for int() to truncate
\* the true quotient
TruncatedMean(total, n) == IF n = 0 THEN 0 ELSE total \div n

calculate_totals(programs_data) ==
    LET n == Cardinality(DOMAIN programs_data)
        sum_coverage == SumField(programs_data, "coverage")
        sum_quality == SumField(programs_data, "quality_score")
    IN  IF n > 0 /\ TrueDivError(sum_coverage, n) # ""
          THEN Raise(TrueDivError(sum_coverage, n))
        ELSE IF n > 0 /\ TrueDivError(sum_quality, n) # ""
          THEN Raise(TrueDivError(sum_quality, n))
        ELSE Return(
          [total_tests     |-> SumField(programs_data, "total_tests"),
           total_passed    |-> SumField(programs_data, "passed"),
           total_failed    |-> SumField(programs_data, "failed"),
           overall_coverage |-> TruncatedMean(sum_coverage, n),
           overall_quality  |-> TruncatedMean(sum_quality, n)])

-----------------------------------------------------------------------------
(* analyze_metrics.py: the analysis functions *)

estimate_paths(test_count) ==
    IF test_count < PATHS_SPLIT
      THEN [lo |-> test_count, hi |-> test_count * 2]
      ELSE [lo |-> test_count, hi |-> test_count + (test_count \div 2)]

\* the index without its guard: passed / total_tests whatever total_tests is
calculate_quality_index_unguarded(program_data) ==
    IF TrueDivError(program_data.passed, program_data.total_tests) # ""
      THEN Raise(TrueDivError(program_data.passed, program_data.total_tests))
      ELSE Return((100 * program_data.passed
                     + program_data.coverage * program_data.total_tests)
                    \div (2 * program_data.total_tests))

\* the index with coverage at full weight and no min(100, ...)
calculate_quality_index_unweighted(program_data) ==
    IF program_data.total_tests > 0
      THEN Return((50 * program_data.passed
                     + program_data.coverage * program_data.total_tests)
                    \div program_data.total_tests)
      ELSE Return(program_data.coverage)

(***************************************************************************)
(* pass_rate = passed / total_tests * 50 if total_tests > 0 else 0         *)
(* coverage_score = coverage * 0.5                                         *)
(* min(100, int(pass_rate + coverage_score))                               *)
(* The sum is (100 * passed + coverage * total_tests) / (2 * total_tests); *)
(* int() truncates it.  (The double arithmetic of the code gives this      *)
(* exact floor for every total_tests below 50; from 50 on, rounding can    *)
(* put the sum just under an integer, e.g. 29/50*50 = 28.999999999999996.) *)
(***************************************************************************)
calculate_quality_index(program_data) ==
    LET total == program_data.total_tests
        passed == program_data.passed
        coverage == program_data.coverage
    IN  IF total > 0 /\ TrueDivError(passed, total) # ""
          THEN Raise(TrueDivError(passed, total))
        ELSE IF FloatOverflows(coverage) THEN Raise("OverflowError")
        ELSE LET quality_index ==
                   IF total > 0
                     THEN (100 * passed + coverage * total) \div (2 * total)
                     ELSE coverage \div 2
             IN  Return(IF quality_index < QUALITY_MAX THEN quality_index
                        ELSE QUALITY_MAX)

\* round(coverage / total_tests, 2) if total_tests > 0 else 0, in hundredths
coverage_per_test(data) ==
    IF data.total_tests > 0
      THEN IF TrueDivError(data.coverage, data.total_tests) # ""
             THEN Raise(TrueDivError(data.coverage, data.total_tests))
             ELSE Return(RoundHalfEven(100 * data.coverage, data.total_tests))
      ELSE Return(0)

\* the analysis of one subject: the body of analyze_code_complexity's loop
analyze_program(data) ==
    LET test_density == data.total_tests
        cpt == coverage_per_test(data)
        tqi == calculate_quality_index(data)
    IN  IF cpt.raised THEN cpt
        ELSE IF tqi.raised THEN tqi
        ELSE Return(
          [complexity |-> IF test_density <= LOW_MAX THEN "LOW"
                          ELSE IF test_density <= MEDIUM_MAX THEN "MEDIUM"
                          ELSE "HIGH",
           complexity_score |-> IF test_density <= LOW_MAX THEN 1
                                ELSE IF test_density <= MEDIUM_MAX THEN 2
                                ELSE 3,
           test_cases |-> test_density,
           coverage_per_test |-> cpt.value,
           execution_paths |-> estimate_paths(data.total_tests),
           test_quality_index |-> tqi.value])

analyze_code_complexity(programs_data) ==
    LET each == [s \in DOMAIN programs_data |-> analyze_program(programs_data[s])]
        failed == {s \in DOMAIN programs_data : each[s].raised}
    IN  IF failed # {}
          THEN each[SetToSeq(failed)[1]]
          ELSE Return([s \in DOMAIN programs_data |-> each[s].value])

\* round(passed / total_tests * 100, 1) if total_tests > 0 else 0, in tenths
test_effectiveness(data) ==
    IF data.total_tests > 0
      THEN IF TrueDivError(data.passed, data.total_tests) # ""
             THEN Raise(TrueDivError(data.passed, data.total_tests))
             ELSE Return(RoundHalfEven(1000 * data.passed, data.total_tests))
      ELSE Return(0)

-----------------------------------------------------------------------------
(* analyze_metrics.py: trends.  A float that is the quotient of two ints   *)
(* is kept as the exact fraction [num, den].                               *)

Fraction(num, den) == [num |-> num, den |-> den]

\* a * a <= 40000 * q for a, q >= 0, without leaving 32-bit integers
SquareAtMost40000(a, q) ==
    LET hi == a \div 200
        lo == a % 200
    IN  IF q < hi * hi THEN FALSE
        ELSE IF q - hi * hi >= 2 * hi + 1 THEN TRUE
        ELSE 400 * hi * lo + lo * lo <= 40000 * (q - hi * hi)

RECURSIVE LargestHundredth(_, _, _, _)
\* the largest k in lo..hi with ((2k - 1) * n)^2 <= 40000 * q, by bisection
LargestHundredth(lo, hi, n, q) ==
    IF lo >= hi THEN lo
    ELSE LET mid == (lo + hi + 1) \div 2
         IN  IF SquareAtMost40000((2 * mid - 1) * n, q)
               THEN LargestHundredth(mid, hi, n, q)
               ELSE LargestHundredth(lo, mid - 1, n, q)

\* the largest absolute value of a non-empty sequence
MaxAbs(values) ==
    LET sizes == {Abs(values[i]) : i \in 1..Len(values)}
    IN  CHOOSE m \in sizes : \A x \in sizes : x <= m

(***************************************************************************)
(* mean = sum(values) / len(values)                                        *)
(* variance = sum((x - mean) ** 2 for x in values) / len(values)           *)
(* round(variance ** 0.5, 2), in hundredths.                               *)
(* With n = len(values), S = sum(values) and q = n * sum(x^2) - S^2 the     *)
(* standard deviation is sqrt(q) / n, and the hundredth nearest to it is    *)
(* the largest k with (2k - 1) * n <= 200 * sqrt(q).                        *)
(***************************************************************************)
calculate_std_dev(values) ==
    IF values = <<>> THEN 0
    ELSE LET n == Len(values)
             S == SumSeq(values)
             squares == SumSeq([i \in 1..n |-> values[i] * values[i]])
             q == n * squares - S * S
         IN  LargestHundredth(0, 200 * MaxAbs(values) + 1, n, q)

\* the value None
None == [present |-> FALSE,
         coverage_trend |-> Fraction(0, 1), quality_trend |-> Fraction(0, 1),
         tests_trend |-> Fraction(0, 1),
         coverage_volatility |-> 0, quality_volatility |-> 0]

\* trends[key]: the changes of one field of 'totals' between consecutive snapshots
Changes(metrics_history, key) ==
    [i \in 1..(Len(metrics_history) - 1) |->
        metrics_history[i + 1].totals[key] - metrics_history[i].totals[key]]

\* the trends with each sum divided by len(metrics_history), the number of
\* snapshots, instead of the number of changes
analyze_trends_per_snapshot(metrics_history) ==
    IF Len(metrics_history) < 2 THEN None
    ELSE LET coverage == Changes(metrics_history, "overall_coverage")
             quality == Changes(metrics_history, "overall_quality")
             tests == Changes(metrics_history, "total_tests")
         IN  [present |-> TRUE,
              coverage_trend |-> Fraction(SumSeq(coverage), Len(metrics_history)),
              quality_trend |-> Fraction(SumSeq(quality), Len(metrics_history)),
              tests_trend |-> Fraction(SumSeq(tests), Len(metrics_history)),
              coverage_volatility |-> calculate_std_dev(coverage),
              quality_volatility |-> calculate_std_dev(quality)]

analyze_trends(metrics_history) ==
    IF Len(metrics_history) < 2 THEN None
    ELSE LET coverage == Changes(metrics_history, "overall_coverage")
             quality == Changes(metrics_history, "overall_quality")
             tests == Changes(metrics_history, "total_tests")
         IN  [present |-> TRUE,
              coverage_trend |-> Fraction(SumSeq(coverage), Len(coverage)),
              quality_trend |-> Fraction(SumSeq(quality), Len(quality)),
              tests_trend |-> Fraction(SumSeq(tests), Len(tests)),
              coverage_volatility |-> calculate_std_dev(coverage),
              quality_volatility |-> calculate_std_dev(quality)]

-----------------------------------------------------------------------------
(* analyze_metrics.py: the text report *)

\* f"+{x:.2f}" if x > 0 else f"{x:.2f}": the sign and the hundredths printed
FormatSigned(x) ==
    [plus |-> x.num > 0,
     negative |-> x.num < 0,
     hundredths |-> RoundHalfEven(100 * Abs(x.num), x.den)]

RECURSIVE Recommendations(_, _, _)
\* the recommendations of the subjects of the sequence 'order', in that order
Recommendations(order, programs_data, analysis) ==
    IF order = <<>> THEN <<>>
    ELSE LET program == Head(order)
             high == IF analysis[program].complexity = "HIGH"
                       THEN <<[program |-> program, advice |-> "High complexity"]>>
                       ELSE <<>>
             low == IF programs_data[program].coverage < LOW_COVERAGE
                      THEN <<[program |-> program, advice |-> "Coverage below 80%"]>>
                      ELSE <<>>
             failing == IF programs_data[program].passed < programs_data[program].total_tests
                          THEN <<[program |-> program, advice |-> "Some tests failing"]>>
                          ELSE <<>>
         IN  high \o low \o failing
               \o Recommendations(Tail(order), programs_data, analysis)

\* the report text, section by section
generate_metrics_report(programs_data, analysis, trends, timestamp) ==
    LET recommendations ==
          Recommendations(SetToSeq(DOMAIN analysis), programs_data, analysis)
    IN  [timestamp |-> timestamp,
         complexity |-> analysis,
         coverage |-> [s \in DOMAIN programs_data |->
                         [tested |-> programs_data[s].coverage,
                          untested |-> 100 - programs_data[s].coverage,
                          effectiveness |-> test_effectiveness(programs_data[s]).value]],
         trend_section |-> trends.present,
         coverage_trend |-> FormatSigned(trends.coverage_trend),
         quality_trend |-> FormatSigned(trends.quality_trend),
         coverage_volatility |-> trends.coverage_volatility,
         quality_volatility |-> trends.quality_volatility,
         recommendations |->
           IF recommendations = <<>>
             THEN <<[program |-> "", advice |-> "All programs meet quality standards"]>>
             ELSE recommendations]

-----------------------------------------------------------------------------
(* generate_report.py: the HTML report *)

generate_html_report(programs_data, totals, timestamp) ==
    [timestamp |-> timestamp,
     cards |-> [total_tests |-> totals.total_tests,
                total_passed |-> totals.total_passed,
                overall_coverage |-> totals.overall_coverage,
                overall_quality |-> totals.overall_quality],
     rows |-> [s \in DOMAIN programs_data |->
                 [data |-> programs_data[s],
                  status |-> IF programs_data[s].passed = programs_data[s].total_tests
                               THEN "PASS" ELSE "PARTIAL"]],
     test_chart |-> <<totals.total_passed, totals.total_failed>>,
     coverage_chart |-> [s \in DOMAIN programs_data |-> programs_data[s].coverage]]

-----------------------------------------------------------------------------
(* JSON.  The text of metrics_history.json is a sequence of tokens: the    *)
(* brackets and commas of the top-level array, and one token for each      *)
(* element, holding the JSON object that json.dump writes for a snapshot   *)
(* (a dict of str keys and int or str values, which JSON represents        *)
(* one-to-one).  A reader may meet any text: no token at all, a text cut   *)
(* off in the middle, a single object that is no array.                    *)

Snapshot(timestamp, programs, totals) ==
    [timestamp |-> timestamp, programs |-> programs, totals |-> totals]

NoValue == Snapshot([sec |-> 0, usec |-> 0], [s \in {} |-> 0],
                    [total_tests |-> 0, total_passed |-> 0, total_failed |-> 0,
                     overall_coverage |-> 0, overall_quality |-> 0])

Punct(c) == [k |-> c, v |-> NoValue]
Value(v) == [k |-> "value", v |-> v]

\* the elements of a list, separated by commas
Joined(items) ==
    [i \in 1..(IF items = <<>> THEN 0 ELSE 2 * Len(items) - 1) |->
        IF i % 2 = 1 THEN Value(items[(i + 1) \div 2]) ELSE Punct(",")]

\* json.dump(history, f, indent=2, default=str) of a list: the text written
json_dump(items) == <<Punct("[")>> \o Joined(items) \o <<Punct("]")>>

\* the text of a JSON document that is one object, not an array
json_dump_object(v) == <<Value(v)>>

IsArrayText(text) ==
    /\ Len(text) >= 2
    /\ text[1].k = "["
    /\ text[Len(text)].k = "]"
    /\ \/ Len(text) = 2
       \/ /\ Len(text) % 2 = 1
          /\ \A i \in 2..(Len(text) - 1) :
                text[i].k = (IF i % 2 = 0 THEN "value" ELSE ",")

\* the Python values json.load can return here: a list, or a dict
PyList(items) == [is_list |-> TRUE, items |-> items, obj |-> NoValue]
PyDict(v) == [is_list |-> FALSE, items |-> <<>>, obj |-> v]

\* json.load(f): the Python value of the text, or JSONDecodeError
json_load(text) ==
    IF IsArrayText(text)
      THEN Return(PyList([i \in 1..((Len(text) - 1) \div 2) |-> text[2 * i].v]))
    ELSE IF Len(text) = 1 /\ text[1].k = "value"
      THEN Return(PyDict(text[1].v))
    ELSE Raise("JSONDecodeError")

-----------------------------------------------------------------------------
(* generate_report.py: the history store *)

\* the reading half without "history = [history]": a stored value that is
\* no list is taken for a list without elements
load_history_unnormalized(file) ==
    IF ~file.exists THEN <<>>
    ELSE LET loaded == json_load(file.text)
         IN  IF loaded.raised THEN <<>> ELSE loaded.value.items

\* save_metrics_history, the reading half: history = [] unless the file
\* exists and parses; a parsed value that is no list becomes [value]
load_history(file) ==
    IF ~file.exists THEN <<>>
    ELSE LET loaded == json_load(file.text)
         IN  IF loaded.raised THEN <<>>
             ELSE IF ~loaded.value.is_list THEN <<loaded.value.obj>>
             ELSE loaded.value.items

\* history[:100]: the cut taken from the wrong end
keep_first(history) ==
    IF Len(history) <= HISTORY_CAP THEN history
    ELSE SubSeq(history, 1, HISTORY_CAP)

\* history[-100:]
keep_last(history) ==
    IF Len(history) <= HISTORY_CAP THEN history
    ELSE SubSeq(history, Len(history) - HISTORY_CAP + 1, Len(history))

\* history.insert(0, metrics): the snapshot put first instead of last
insert_metrics(history, metrics) == keep_last(<<metrics>> \o history)

\* history.append(metrics); history = history[-100:]
append_metrics(history, metrics) == keep_last(Append(history, metrics))

\* analyze_metrics.py main(): trends = None unless the file exists, parses
\* to a list of more than one element, and analyze_trends returns
load_trends(file) ==
    IF ~file.exists THEN None
    ELSE LET loaded == json_load(file.text)
         IN  IF loaded.raised THEN None
             ELSE IF loaded.value.is_list /\ Len(loaded.value.items) > 1
               THEN analyze_trends(loaded.value.items)
             ELSE None

-----------------------------------------------------------------------------
(* generate_report.py: the archive *)

ResultFileName(s) ==
    CASE s = "NUMBERS" -> "NUMBERS_results.txt"
      [] s = "EMPPAY" -> "EMPPAY_results.txt"
      [] s = "DEPTPAY" -> "DEPTPAY_results.txt"

\* the names of the other *.txt files that end in _results.txt
OtherResultNames == {"OLD_results.txt"}

\* Path(results_dir).glob("*.txt")
GlobTxt ==
    {ResultFileName(s) : s \in Present(resultFiles)}
      \cup otherTxt
      \cup (IF metricsReport.exists THEN {"advanced_metrics.txt"} ELSE {})

\* Path(results_dir).glob("*_results.txt")
GlobResults ==
    {ResultFileName(s) : s \in Present(resultFiles)}
      \cup (otherTxt \cap OtherResultNames)

NoRun == [exists |-> FALSE, files |-> {}, has_metadata |-> FALSE,
          metadata |-> [timestamp |-> [sec |-> 0, usec |-> 0], programs |-> {}]]

-----------------------------------------------------------------------------
(* Processes: one report generator ("gen") and one metrics analysis        *)
(* ("ana"), each invoked again and again on the same results directory.    *)
(* pc is "idle" before the first invocation and "exited" after a run, when *)
(* exitCode holds the run's exit status.                                   *)

NoData == [s \in {} |-> 0]

NoLocals ==
    [gen |-> [programs_data |-> NoData, totals |-> NoValue.totals, history |-> <<>>],
     ana |-> [programs_data |-> NoData, analysis |-> NoData, trends |-> None]]

Stopped(p) == pc[p] \in {"idle", "exited"}

\* sys.exit(code), or the interpreter ending on an uncaught exception (code 1)
Exit(p, code) ==
    /\ pc' = [pc EXCEPT ![p] = "exited"]
    /\ exitCode' = [exitCode EXCEPT ![p] = code]
    /\ locals' = [locals EXCEPT ![p] = NoLocals[p]]

Goto(p, label) ==
    /\ pc' = [pc EXCEPT ![p] = label]
    /\ UNCHANGED exitCode

(***************************************************************************)
(* datetime.now().  Wall-clock time passes between any two steps; only a   *)
(* reading observes it, so the passing of a second is drawn at the         *)
(* readings.  strftime("...%H:%M:%S") prints the second; isoformat()       *)
(* prints the microseconds too, and these readings are told apart: each    *)
(* one is later than the one before.                                       *)
(***************************************************************************)
Readings ==
    {clock} \cup (IF clock.sec < MaxSec THEN {[clock EXCEPT !.sec = @ + 1]} ELSE {})

Later(now) == [now EXCEPT !.usec = @ + 1]

-----------------------------------------------------------------------------
(* generate_report.py: main() *)

\* a new invocation starts: if not results_dir.exists(): return 1
gen_check_dir ==
    /\ Stopped("gen")
    /\ runs.gen + runs.ana < MaxRuns
    /\ runs' = [runs EXCEPT !.gen = @ + 1]
    /\ IF dirExists
         THEN Goto("gen", "parse") /\ UNCHANGED locals
         ELSE Exit("gen", 1)
    /\ UNCHANGED <<disk, clock>>

\* main() with the report written before programs_data is looked at: a run
\* that finds no result file leaves an empty test_report.html behind
gen_parse_render_first ==
    /\ pc.gen = "parse"
    /\ LET programs_data == parse_test_results(resultFiles)
       IN  IF DOMAIN programs_data = {}
             THEN /\ Exit("gen", 1)
                  /\ htmlReport' = [exists |-> TRUE,
                                    doc |-> generate_html_report(NoData, NoValue.totals,
                                                                 clock.sec)]
             ELSE /\ Goto("gen", "totals")
                  /\ locals' = [locals EXCEPT !.gen.programs_data = programs_data]
                  /\ UNCHANGED htmlReport
    /\ UNCHANGED <<dirExists, resultFiles, otherTxt, metricsReport, historyFile,
                   archive, clock, runs>>

\* programs_data = parse_test_results(results_dir); if not programs_data: return 1
gen_parse ==
    /\ pc.gen = "parse"
    /\ LET programs_data == parse_test_results(resultFiles)
       IN  IF DOMAIN programs_data = {}
             THEN Exit("gen", 1)
             ELSE /\ Goto("gen", "totals")
                  /\ locals' = [locals EXCEPT !.gen.programs_data = programs_data]
    /\ UNCHANGED <<disk, clock, runs>>

\* main() with archive_results called before generate_html_report: the run
\* goes from the totals to the archive, and the report is not yet written
gen_totals_then_archive ==
    /\ pc.gen = "totals"
    /\ LET totals == calculate_totals(locals.gen.programs_data)
       IN  IF totals.raised
             THEN Exit("gen", 1)
             ELSE /\ Goto("gen", "archive")
                  /\ locals' = [locals EXCEPT !.gen.totals = totals.value]
    /\ UNCHANGED <<disk, clock, runs>>

\* totals = calculate_totals(programs_data); an exception ends the process
gen_totals ==
    /\ pc.gen = "totals"
    /\ LET totals == calculate_totals(locals.gen.programs_data)
       IN  IF totals.raised
             THEN Exit("gen", 1)
             ELSE /\ Goto("gen", "html")
                  /\ locals' = [locals EXCEPT !.gen.totals = totals.value]
    /\ UNCHANGED <<disk, clock, runs>>

\* generate_html_report(programs_data, totals, html_file)
gen_html ==
    /\ pc.gen = "html"
    /\ \E now \in Readings :
          /\ htmlReport' = [exists |-> TRUE,
                            doc |-> generate_html_report(locals.gen.programs_data,
                                                         locals.gen.totals, now.sec)]
          /\ clock' = now
    /\ Goto("gen", "archive")
    /\ UNCHANGED <<dirExists, resultFiles, otherTxt, metricsReport, historyFile,
                   archive, locals, runs>>

(***************************************************************************)
(* archive_results(results_dir): archive/ and archive/<timestamp>/ are     *)
(* made with exist_ok=True, every *.txt but SUMMARY.txt is copied into the *)
(* run directory, and metadata.json is written there.  str(path) of a      *)
(* globbed path is results_dir/<name>.                                     *)
(***************************************************************************)
archive_results ==
    /\ pc.gen = "archive"
    /\ \E now \in Readings :
          LET timestamp == now.sec
              run_archive == archive.runs[timestamp]
              copied == {name \in GlobTxt : name # "SUMMARY.txt"}
              metadata == [timestamp |-> now,
                           programs |-> {[dir |-> "results_dir", name |-> name] :
                                            name \in GlobResults}]
          IN  /\ archive' = [exists |-> TRUE,
                             runs |-> [archive.runs EXCEPT ![timestamp] =
                                         [exists |-> TRUE,
                                          files |-> run_archive.files \cup copied,
                                          has_metadata |-> TRUE,
                                          metadata |-> metadata]]]
              /\ clock' = Later(now)
    /\ Goto("gen", "save_read")
    /\ UNCHANGED <<dirExists, resultFiles, otherTxt, htmlReport, metricsReport,
                   historyFile, locals, runs>>

\* save_metrics_history, lines 411-432: the snapshot, the stored history,
\* the append and the cut to the last 100
save_metrics_history_read ==
    /\ pc.gen = "save_read"
    /\ \E now \in Readings :
          LET metrics == Snapshot(now, locals.gen.programs_data, locals.gen.totals)
          IN  /\ locals' = [locals EXCEPT !.gen.history =
                              append_metrics(load_history(historyFile), metrics)]
              /\ clock' = Later(now)
    /\ Goto("gen", "save_open")
    /\ UNCHANGED <<disk, runs>>

\* open(metrics_file, 'w'): the file is created or cut to length 0
save_metrics_history_open ==
    /\ pc.gen = "save_open"
    /\ historyFile' = File(<<>>)
    /\ Goto("gen", "save_write")
    /\ UNCHANGED <<dirExists, resultFiles, otherTxt, htmlReport, metricsReport,
                   archive, clock, locals, runs>>

\* json.dump(history, f, indent=2, default=str), the file closed; main
\* prints its summary and returns 0
save_metrics_history_write ==
    /\ pc.gen = "save_write"
    /\ historyFile' = File(json_dump(locals.gen.history))
    /\ Exit("gen", 0)
    /\ UNCHANGED <<dirExists, resultFiles, otherTxt, htmlReport, metricsReport,
                   archive, clock, runs>>

-----------------------------------------------------------------------------
(* analyze_metrics.py: main() *)

\* a new invocation starts: if not results_dir.exists(): return 1
ana_check_dir ==
    /\ Stopped("ana")
    /\ runs.gen + runs.ana < MaxRuns
    /\ runs' = [runs EXCEPT !.ana = @ + 1]
    /\ IF dirExists
         THEN Goto("ana", "parse") /\ UNCHANGED locals
         ELSE Exit("ana", 1)
    /\ UNCHANGED <<disk, clock>>

\* the parsing loop; if not programs_data: return 1
ana_parse ==
    /\ pc.ana = "parse"
    /\ LET programs_data == parse_current_results(resultFiles)
       IN  IF DOMAIN programs_data = {}
             THEN Exit("ana", 1)
             ELSE /\ Goto("ana", "analyze")
                  /\ locals' = [locals EXCEPT !.ana.programs_data = programs_data]
    /\ UNCHANGED <<disk, clock, runs>>

\* analysis = analyze_code_complexity(programs_data); an exception ends the process
ana_analyze ==
    /\ pc.ana = "analyze"
    /\ LET analysis == analyze_code_complexity(locals.ana.programs_data)
       IN  IF analysis.raised
             THEN Exit("ana", 1)
             ELSE /\ Goto("ana", "trends")
                  /\ locals' = [locals EXCEPT !.ana.analysis = analysis.value]
    /\ UNCHANGED <<disk, clock, runs>>

\* lines 250-260: the stored history is read and the trends computed
ana_trends ==
    /\ pc.ana = "trends"
    /\ locals' = [locals EXCEPT !.ana.trends = load_trends(historyFile)]
    /\ Goto("ana", "report")
    /\ UNCHANGED <<disk, clock, runs>>

\* generate_metrics_report(...) writes advanced_metrics.txt; main returns 0
ana_report ==
    /\ pc.ana = "report"
    /\ \E now \in Readings :
          /\ metricsReport' =
               [exists |-> TRUE,
                doc |-> generate_metrics_report(locals.ana.programs_data,
                                                locals.ana.analysis,
                                                locals.ana.trends, now.sec)]
          /\ clock' = now
    /\ Exit("ana", 0)
    /\ UNCHANGED <<dirExists, resultFiles, otherTxt, htmlReport, historyFile,
                   archive, runs>>

-----------------------------------------------------------------------------
(* The results directories and stored histories the runs start from *)

NumbersText ==
    <<Entry("Total Test Cases", TRUE, 10, FALSE), Entry("Tests Passed", TRUE, 8, FALSE),
      Entry("Tests Failed", TRUE, 2, FALSE), Entry("Code Coverage", TRUE, 85, TRUE),
      Entry("Test Quality Score", TRUE, 90, TRUE)>>

\* a runner's looser output: no blank after one colon, a coverage figure
\* without its percent sign before the one that has it, no quality score
EmppayText ==
    <<Entry("Total Test Cases", FALSE, 4, FALSE), Entry("Tests Passed", TRUE, 4, FALSE),
      Entry("Code Coverage", TRUE, 70, FALSE), Entry("Code Coverage", TRUE, 72, TRUE)>>

DeptpayText ==
    <<Entry("Total Test Cases", TRUE, 25, FALSE), Entry("Tests Passed", TRUE, 24, FALSE),
      Entry("Tests Failed", TRUE, 1, FALSE), Entry("Code Coverage", TRUE, 96, TRUE),
      Entry("Test Quality Score", TRUE, 88, TRUE)>>

\* a coverage numeral too long for a double
HugeText ==
    <<Entry("Total Test Cases", TRUE, 3, FALSE), Entry("Tests Passed", TRUE, 3, FALSE),
      Entry("Code Coverage", TRUE, Huge, TRUE)>>

SampleText(s) ==
    CASE s = "NUMBERS" -> NumbersText
      [] s = "EMPPAY" -> EmppayText
      [] s = "DEPTPAY" -> DeptpayText

DirectoryOf(present) ==
    [s \in SubjectSet |-> IF s \in present THEN File(SampleText(s)) ELSE NoFile]

SampleDirectories ==
    {DirectoryOf(present) :
        present \in {{}, {"NUMBERS"}, {"EMPPAY", "DEPTPAY"}, SubjectSet}}
      \cup {[DirectoryOf({"EMPPAY"}) EXCEPT !["NUMBERS"] = File(HugeText)]}

\* the snapshot an earlier run appended, the i-th of a stored history
PriorSnapshot(i) ==
    Snapshot([sec |-> -1, usec |-> i],
             [s \in {"NUMBERS"} |->
                [total_tests |-> 10 + (i % 2), passed |-> 8, failed |-> 2 + (i % 2),
                 coverage |-> 70 + (i % 3), quality_score |-> 80 + (i % 2)]],
             [total_tests |-> 10 + (i % 2), total_passed |-> 8, total_failed |-> 2 + (i % 2),
              overall_coverage |-> 70 + (i % 3), overall_quality |-> 80 + (i % 2)])

PriorHistory(n) == [i \in 1..n |-> PriorSnapshot(i)]

StoredLengths ==
    (0..MaxShort) \cup ((HISTORY_CAP - 1)..(HISTORY_CAP + MaxOver))

\* absent; empty; cut off in the middle; one object that is no array; arrays
StoredHistories ==
    {NoFile, File(<<>>), File(SubSeq(json_dump(PriorHistory(2)), 1, 3)),
     File(json_dump_object(PriorSnapshot(1)))}
      \cup {File(json_dump(PriorHistory(n))) : n \in StoredLengths}

NoHtml == [exists |-> FALSE, doc |-> generate_html_report(NoData, NoValue.totals, 0)]
NoReport == [exists |-> FALSE, doc |-> generate_metrics_report(NoData, NoData, None, 0)]
NoArchive == [exists |-> FALSE, runs |-> [t \in 0..MaxSec |-> NoRun]]

InitProcesses ==
    /\ clock = [sec |-> 0, usec |-> 0]
    /\ pc = [gen |-> "idle", ana |-> "idle"]
    /\ locals = NoLocals
    /\ exitCode = [gen |-> 0, ana |-> 0]
    /\ runs = [gen |-> 0, ana |-> 0]

Init ==
    /\ dirExists \in BOOLEAN
    /\ resultFiles \in (IF dirExists THEN SampleDirectories ELSE {DirectoryOf({})})
    /\ otherTxt \in (IF dirExists THEN {{}, {"SUMMARY.txt", "notes.txt"}} ELSE {{}})
    /\ historyFile \in (IF dirExists THEN StoredHistories ELSE {NoFile})
    /\ htmlReport = NoHtml
    /\ metricsReport = NoReport
    /\ archive = NoArchive
    /\ InitProcesses

GenNext ==
    \/ gen_check_dir
    \/ gen_parse
    \/ gen_totals
    \/ gen_html
    \/ archive_results
    \/ save_metrics_history_read
    \/ save_metrics_history_open
    \/ save_metrics_history_write

AnaNext ==
    \/ ana_check_dir
    \/ ana_parse
    \/ ana_analyze
    \/ ana_trends
    \/ ana_report

Next == GenNext \/ AnaNext

Spec == Init /\ [][Next]_vars

-----------------------------------------------------------------------------
(* Properties of the history store *)

\* the step of save_metrics_history that reads, appends and cuts
SaveReadStep == pc.gen = "save_read" /\ pc'.gen = "save_open"

\* the step of save_metrics_history that writes the file
SaveWriteStep == pc.gen = "save_write" /\ pc'.gen = "exited"

\* the stored file holds a JSON array
StoredIsList ==
    /\ historyFile.exists
    /\ ~json_load(historyFile.text).raised
    /\ json_load(historyFile.text).value.is_list

\* the elements of the stored array
StoredItems == json_load(historyFile.text).value.items

\* the snapshot that the run at save_read is about to append
IsNewSnapshot(m) ==
    /\ m.programs = locals.gen.programs_data
    /\ m.totals = locals.gen.totals
    /\ m.timestamp.usec = clock.usec
    /\ m.timestamp.sec \in {clock.sec, clock.sec + 1}

Last(seq) == seq[Len(seq)]

\* the last n elements of a sequence, all of it if it is shorter
LastOf(seq, n) ==
    IF Len(seq) <= n THEN seq ELSE [i \in 1..n |-> seq[Len(seq) - n + i]]

\* a report-generator run has ended with exit status 0
GenSucceeded == pc.gen = "exited" /\ exitCode.gen = 0 /\ runs.gen > 0

\* C1, first half: once a report-generator run has succeeded, the persisted
\* history is an array of at most 100 snapshots, whatever the stored history
\* was before (the only other writer of the file is a later run, which cuts
\* the file to length 0 before it writes).
C1_AtMostCap ==
    GenSucceeded =>
        /\ StoredIsList
        /\ Len(StoredItems) >= 1
        /\ Len(StoredItems) <= HISTORY_CAP

\* C1, second half: appending to a stored history of exactly 100 entries
\* gives 100 entries, the oldest dropped, the others moved up by one, and
\* the new snapshot last; and this is the history the run then writes.
C1_AppendAtCap ==
    /\ SaveReadStep /\ StoredIsList /\ Len(StoredItems) = HISTORY_CAP =>
          /\ Len(locals'.gen.history) = HISTORY_CAP
          /\ \A i \in 1..(HISTORY_CAP - 1) : locals'.gen.history[i] = StoredItems[i + 1]
          /\ IsNewSnapshot(Last(locals'.gen.history))
    /\ SaveWriteStep =>
          /\ json_load(historyFile'.text).value.items = locals.gen.history
          /\ Len(locals.gen.history) <= HISTORY_CAP

\* C1: after any sequence of successful runs the persisted history holds at
\* most 100 snapshots, and an append to a 100-entry history keeps 100
\* entries, drops the oldest and puts the new snapshot last.
C1_HistoryCapped == [](C1_AtMostCap) /\ [][C1_AppendAtCap]_vars

\* C1 witness: a run has appended to a stored history of exactly 100 entries
\* (the file still holds them) and is about to write its 100-entry result.
C1_Witness ==
    /\ pc.gen = "save_open"
    /\ StoredIsList
    /\ Len(StoredItems) = HISTORY_CAP
    /\ Len(locals.gen.history) = HISTORY_CAP
    /\ Last(locals.gen.history) \notin {StoredItems[i] : i \in 1..HISTORY_CAP}

\* C2 as claimed: the history a run builds from a stored array h is the last
\* 100 elements of h followed by the new snapshot.
C2_Last100ThenNew ==
    [][SaveReadStep /\ StoredIsList =>
         /\ Len(locals'.gen.history) = Len(LastOf(StoredItems, HISTORY_CAP)) + 1
         /\ \A i \in 1..Len(LastOf(StoredItems, HISTORY_CAP)) :
               locals'.gen.history[i] = LastOf(StoredItems, HISTORY_CAP)[i]]_vars

\* the history built from the stored array: the last 99 of it, unchanged and
\* in their order, then the new snapshot
C2_ReadStep ==
    SaveReadStep /\ StoredIsList =>
        LET kept == LastOf(StoredItems, HISTORY_CAP - 1)
        IN  /\ Len(locals'.gen.history) = Len(kept) + 1
            /\ \A i \in 1..Len(kept) : locals'.gen.history[i] = kept[i]
            /\ IsNewSnapshot(Last(locals'.gen.history))

\* the file written parses back to the history that was built
C2_WriteStep ==
    SaveWriteStep =>
        /\ historyFile'.exists
        /\ json_load(historyFile'.text) = Return(PyList(locals.gen.history))

\* C2, amended: every run of save_metrics_history on a stored array h writes
\* back the last 99 elements of h followed by the new snapshot (the last 100
\* of h with the snapshot appended), each retained snapshot with its value
\* and its relative order, and reloading the written file gives that
\* sequence.
C2_AppendOnly == [][C2_ReadStep /\ C2_WriteStep]_vars

\* C2 witness: a run has appended to a stored array of more than 100
\* entries, where the last 100 and the last 99 of it differ.
C2_Witness ==
    /\ pc.gen = "save_open"
    /\ StoredIsList
    /\ Len(StoredItems) > HISTORY_CAP
    /\ Len(locals.gen.history) = HISTORY_CAP
    /\ locals.gen.history[1] = StoredItems[Len(StoredItems) - HISTORY_CAP + 2]

-----------------------------------------------------------------------------
(* Properties of the archive *)

\* C3: an invocation of archive_results never reuses the run directory of
\* an earlier invocation nor replaces a file in it, metadata.json included:
\* a run directory that exists is left as it is by every step.
C3_NeverOverwrites ==
    [][\A t \in 0..MaxSec :
          archive.runs[t].exists => archive'.runs[t] = archive.runs[t]]_vars

\* C5: every run directory holds exactly the result files of the subjects
\* (no summary, no generated report), and the 'programs' list of its
\* metadata.json names exactly the files copied.
C5_ArchiveExact ==
    \A t \in 0..MaxSec :
        archive.runs[t].exists =>
            /\ archive.runs[t].files =
                 {ResultFileName(s) : s \in Present(resultFiles)}
            /\ {path.name : path \in archive.runs[t].metadata.programs} =
                 archive.runs[t].files

-----------------------------------------------------------------------------
(* Properties of the exit status and of the error handling *)

\* the stored file exists and json.load fails on it (empty, cut off)
StoredUnparsable == historyFile.exists /\ json_load(historyFile.text).raised

\* the stored file holds a JSON value that is no array
StoredNonList ==
    /\ historyFile.exists
    /\ ~json_load(historyFile.text).raised
    /\ ~json_load(historyFile.text).value.is_list

\* save_metrics_history goes on over a bad file and builds [new] or [v, new]
C4_GeneratorStep ==
    /\ pc.gen = "save_read" /\ pc'.gen # "save_read" /\ StoredUnparsable =>
          /\ pc'.gen = "save_open"
          /\ Len(locals'.gen.history) = 1
          /\ IsNewSnapshot(locals'.gen.history[1])
    /\ pc.gen = "save_read" /\ pc'.gen # "save_read" /\ StoredNonList =>
          /\ pc'.gen = "save_open"
          /\ Len(locals'.gen.history) = 2
          /\ locals'.gen.history[1] = json_load(historyFile.text).value.obj
          /\ IsNewSnapshot(locals'.gen.history[2])
    /\ SaveWriteStep /\ Len(locals.gen.history) <= 2 =>
          /\ json_load(historyFile'.text).value.items = locals.gen.history
          /\ exitCode'.gen = 0

\* the metrics analysis goes on over a bad file, with no trends, and its
\* report has no trend section
C4_AnalysisStep ==
    /\ pc.ana = "trends" /\ pc'.ana # "trends"
         /\ (StoredUnparsable \/ StoredNonList) =>
          /\ pc'.ana = "report"
          /\ locals'.ana.trends = None
    /\ pc.ana = "report" /\ pc'.ana # "report" /\ ~locals.ana.trends.present =>
          /\ pc'.ana = "exited"
          /\ exitCode'.ana = 0
          /\ metricsReport'.exists
          /\ ~metricsReport'.doc.trend_section

\* C4: a history file that is empty or does not parse counts as an empty
\* history and fails no run: the generator writes [new snapshot], or
\* [v, new snapshot] for a stored value v that is no array, and the metrics
\* analysis reading such a file writes its report without a trend section
\* and exits 0.
C4_BadHistoryTolerated == [][C4_GeneratorStep /\ C4_AnalysisStep]_vars

\* C4 witness: the metrics analysis has ended with status 0 and a report
\* without trends, and the generator has built [v, new] from a stored value
\* that is no array.
C4_Witness ==
    /\ pc.ana = "exited" /\ exitCode.ana = 0
    /\ metricsReport.exists /\ ~metricsReport.doc.trend_section
    /\ pc.gen = "save_open"
    /\ StoredNonList
    /\ Len(locals.gen.history) = 2

\* C6: a script exits with 1 exactly when the results directory is missing
\* or holds no result file of NUMBERS, EMPPAY or DEPTPAY, and with 0 in
\* every other case, whatever the files contain.
C6_ExitCodes ==
    \A p \in {"gen", "ana"} :
        pc[p] = "exited" =>
            exitCode[p] = (IF ~dirExists \/ Present(resultFiles) = {} THEN 1 ELSE 0)

-----------------------------------------------------------------------------
(* The analysis functions on every record within the bounds: the metrics   *)
(* analysis run on a directory that holds one result file.                 *)

RecordText(total_tests, passed, coverage) ==
    <<Entry("Total Test Cases", TRUE, total_tests, FALSE),
      Entry("Tests Passed", TRUE, passed, FALSE),
      Entry("Code Coverage", TRUE, coverage, TRUE)>>

\* total_tests in 0..MaxTests, passed in 0..total_tests (any passed when
\* total_tests is 0), coverage in 0..MaxCoverage
RecordTexts ==
    {RecordText(t, p, c) :
        <<t, p, c>> \in {x \in (0..MaxTests) \X (0..MaxTests) \X (0..MaxCoverage) :
                           x[1] = 0 \/ x[2] <= x[1]}}

InitAnalysis ==
    /\ dirExists = TRUE
    /\ resultFiles \in {[DirectoryOf({}) EXCEPT !["NUMBERS"] = File(text)] :
                          text \in RecordTexts}
    /\ otherTxt = {}
    /\ historyFile = NoFile
    /\ htmlReport = NoHtml
    /\ metricsReport = NoReport
    /\ archive = NoArchive
    /\ InitProcesses

SpecAnalysis == InitAnalysis /\ [][AnaNext]_vars

\* the record of the one result file, as the metrics analysis parses it
TheRecord == parse_current_results(resultFiles)["NUMBERS"]

\* the analysis of the record is at hand: computed and not yet reported
Analyzed == pc.ana \in {"trends", "report"}

\* the run has written its report
Reported == pc.ana = "exited" /\ metricsReport.exists

\* C7 as claimed: with totalTests = 0, coveragePerTest, qualityIndex and the
\* report's test effectiveness are all 0.
C7_AllZero ==
    TheRecord.total_tests = 0 =>
        /\ Analyzed =>
              /\ locals.ana.analysis["NUMBERS"].coverage_per_test = 0
              /\ locals.ana.analysis["NUMBERS"].test_quality_index = 0
        /\ Reported => metricsReport.doc.coverage["NUMBERS"].effectiveness = 0

\* C7, amended: with totalTests = 0 (any passed, coverage in 0..100),
\* coveragePerTest and the report's test effectiveness are 0, qualityIndex is
\* floor(coverage * 0.5) (its pass-rate term is 0), and no division by zero
\* ends the run: it exits 0.
C7_ZeroTests ==
    TheRecord.total_tests = 0 =>
        /\ Analyzed =>
              /\ locals.ana.analysis["NUMBERS"].coverage_per_test = 0
              /\ 2 * locals.ana.analysis["NUMBERS"].test_quality_index
                   \in {TheRecord.coverage - 1, TheRecord.coverage}
        /\ Reported =>
              /\ metricsReport.doc.coverage["NUMBERS"].effectiveness = 0
              /\ 2 * metricsReport.doc.complexity["NUMBERS"].test_quality_index
                   \in {TheRecord.coverage - 1, TheRecord.coverage}
        /\ pc.ana = "exited" => exitCode.ana = 0

\* C7 witness: a record with no tests, 3 passed and coverage 80 has been
\* analysed and reported: index 40, the other two 0.
C7_Witness ==
    /\ Reported
    /\ TheRecord.total_tests = 0 /\ TheRecord.passed = 3 /\ TheRecord.coverage = 80
    /\ metricsReport.doc.complexity["NUMBERS"].test_quality_index = 40
    /\ metricsReport.doc.complexity["NUMBERS"].coverage_per_test = 0
    /\ metricsReport.doc.coverage["NUMBERS"].effectiveness = 0

\* q is min(100, floor(passed / total * 50 + coverage * 0.5)), the pass-rate
\* term 0 when total is 0: stated on twice the sum, to stay in the integers
IsQualityIndex(q, total, passed, coverage) ==
    LET den == IF total > 0 THEN 2 * total ELSE 2
        num == IF total > 0 THEN 100 * passed + coverage * total ELSE coverage
    IN  \/ q = QUALITY_MAX /\ num >= QUALITY_MAX * den
        \/ q < QUALITY_MAX /\ q * den <= num /\ num < (q + 1) * den

\* C9: for totalTests >= 0, passed in [0, totalTests] and coverage in
\* [0, 100], qualityIndex is min(100, floor(passed/totalTests*50 +
\* coverage*0.5)), the pass-rate term 0 when totalTests is 0, and lies in
\* [0, 100]; computing it ends no run.
C9_QualityIndexInRange ==
    TheRecord.passed <= TheRecord.total_tests /\ TheRecord.coverage <= 100 =>
        /\ Analyzed =>
              /\ locals.ana.analysis["NUMBERS"].test_quality_index \in 0..100
              /\ IsQualityIndex(locals.ana.analysis["NUMBERS"].test_quality_index,
                                TheRecord.total_tests, TheRecord.passed,
                                TheRecord.coverage)
        /\ Reported =>
              metricsReport.doc.complexity["NUMBERS"].test_quality_index \in 0..100
        /\ pc.ana = "exited" => exitCode.ana = 0

\* C9 witness: the upper end, every test passed and coverage 100, index 100.
C9_Witness ==
    /\ Analyzed
    /\ TheRecord.total_tests > 0
    /\ TheRecord.passed = TheRecord.total_tests
    /\ TheRecord.coverage = 100
    /\ locals.ana.analysis["NUMBERS"].test_quality_index = 100

-----------------------------------------------------------------------------
(* analyze_trends on every history within the bounds: the metrics analysis *)
(* run on a directory whose stored history is an array of up to            *)
(* MaxTrendLen snapshots.                                                  *)

TrendSnapshot(coverage, quality, tests) ==
    Snapshot([sec |-> -1, usec |-> 0], NoData,
             [total_tests |-> tests, total_passed |-> tests, total_failed |-> 0,
              overall_coverage |-> coverage, overall_quality |-> quality])

TrendSnapshots ==
    {TrendSnapshot(70, 80, 10), TrendSnapshot(75, 85, 12),
     TrendSnapshot(80, 78, 12), TrendSnapshot(62, 91, 7)}

TrendHistories == UNION {[1..n -> TrendSnapshots] : n \in 0..MaxTrendLen}

InitTrends ==
    /\ dirExists = TRUE
    /\ resultFiles = DirectoryOf({"NUMBERS"})
    /\ otherTxt = {}
    /\ historyFile \in {File(json_dump(h)) : h \in TrendHistories}
    /\ htmlReport = NoHtml
    /\ metricsReport = NoReport
    /\ archive = NoArchive
    /\ InitProcesses

SpecTrends == InitTrends /\ [][AnaNext]_vars

\* the fraction x is the mean of the n - 1 changes of a field that goes
\* from 'first' to 'last' over n snapshots: the changes sum to last - first
IsMeanChange(x, n, first, last) ==
    /\ x.den = n - 1
    /\ x.num = last - first

\* the stored history, one field of its totals
StoredField(key) == [i \in 1..Len(StoredItems) |-> StoredItems[i].totals[key]]

\* C8: analyze_trends returns None for a history of length 0 or 1; for a
\* history of n >= 2 snapshots its three trends are the means of the n - 1
\* changes of overall_coverage, overall_quality and total_tests between
\* consecutive snapshots; coverage 70, 75, 80 gives a coverage trend of 5
\* and a volatility of 0. The run of the metrics analysis holds these
\* trends once it has read the history.
C8_Trends ==
    LET h == StoredItems
        n == Len(h)
        trends == analyze_trends(h)
    IN  /\ n < 2 => trends = None
        /\ n >= 2 =>
              /\ trends.present
              /\ IsMeanChange(trends.coverage_trend, n,
                              h[1].totals.overall_coverage, h[n].totals.overall_coverage)
              /\ IsMeanChange(trends.quality_trend, n,
                              h[1].totals.overall_quality, h[n].totals.overall_quality)
              /\ IsMeanChange(trends.tests_trend, n,
                              h[1].totals.total_tests, h[n].totals.total_tests)
        /\ StoredField("overall_coverage") = <<70, 75, 80>> =>
              /\ trends.coverage_trend.num = 5 * trends.coverage_trend.den
              /\ trends.coverage_volatility = 0
        /\ pc.ana = "report" => locals.ana.trends = trends

\* C8 witness: the run has read the history with coverage 70, 75, 80 and
\* holds its trends: two changes that sum to 10.
C8_Witness ==
    /\ pc.ana = "report"
    /\ StoredField("overall_coverage") = <<70, 75, 80>>
    /\ locals.ana.trends.present
    /\ locals.ana.trends.coverage_trend = Fraction(10, 2)
    /\ locals.ana.trends.coverage_volatility = 0

-----------------------------------------------------------------------------
(* calculate_totals on directories in which any of the subjects may be     *)
(* missing: the report generator run on them.                              *)

TotalsText(tests, passed, failed, coverage, quality) ==
    <<Entry("Total Test Cases", TRUE, tests, FALSE),
      Entry("Tests Passed", TRUE, passed, FALSE),
      Entry("Tests Failed", TRUE, failed, FALSE),
      Entry("Code Coverage", TRUE, coverage, TRUE),
      Entry("Test Quality Score", TRUE, quality, TRUE)>>

TotalsTexts ==
    {TotalsText(10, 8, 2, 85, 90), TotalsText(4, 4, 0, 70, 75),
     TotalsText(25, 24, 1, 96, 88)}

InitTotals ==
    /\ dirExists = TRUE
    /\ resultFiles \in [SubjectSet -> {NoFile} \cup {File(text) : text \in TotalsTexts}]
    /\ otherTxt = {}
    /\ historyFile = NoFile
    /\ htmlReport = NoHtml
    /\ metricsReport = NoReport
    /\ archive = NoArchive
    /\ InitProcesses

SpecTotals == InitTotals /\ [][GenNext]_vars

\* the sum, over the result files that exist, of one labelled numeral
SumOverFiles(label, percent) ==
    LET term(s) == IF ~resultFiles[s].exists THEN 0
                   ELSE IF percent THEN extract_percentage(resultFiles[s].text, label)
                   ELSE extract_number(resultFiles[s].text, label)
    IN  term("NUMBERS") + term("EMPPAY") + term("DEPTPAY")

\* m is the mean of a sum over n subjects, cut to an integer
IsTruncatedMean(m, sum, n) == n * m <= sum /\ sum < n * (m + 1)

\* the run holds its parsed data; the run holds its totals
Parsed == pc.gen \notin {"idle", "exited", "parse"}
Totalled == pc.gen \in {"html", "archive", "save_read", "save_open", "save_write"}

\* C10: a subject without a result file is left out of the parsed data (not
\* filled with zeros), overallCoverage and overallQuality are the means, cut
\* to integers, over the subjects present, divided by their number and not
\* by three, and totalTests, totalPassed and totalFailed are the sums over
\* them.
C10_TotalsOverPresent ==
    LET n == Cardinality(Present(resultFiles))
    IN  /\ Parsed => DOMAIN locals.gen.programs_data = Present(resultFiles)
        /\ Totalled =>
              /\ n > 0
              /\ IsTruncatedMean(locals.gen.totals.overall_coverage,
                                 SumOverFiles("Code Coverage", TRUE), n)
              /\ IsTruncatedMean(locals.gen.totals.overall_quality,
                                 SumOverFiles("Test Quality Score", TRUE), n)
              /\ locals.gen.totals.total_tests =
                   SumOverFiles("Total Test Cases", FALSE)
              /\ locals.gen.totals.total_passed =
                   SumOverFiles("Tests Passed", FALSE)
              /\ locals.gen.totals.total_failed =
                   SumOverFiles("Tests Failed", FALSE)

\* C10 witness: two of the three subjects are present, with coverage 85 and
\* 70; the run holds the mean over the two, 77.
C10_Witness ==
    /\ pc.gen = "html"
    /\ Cardinality(Present(resultFiles)) = 2
    /\ SumOverFiles("Code Coverage", TRUE) = 155
    /\ locals.gen.totals.overall_coverage = 77
    /\ Cardinality(DOMAIN locals.gen.programs_data) = 2

-----------------------------------------------------------------------------
(* The history file as a reader finds it while save_metrics_history runs   *)

\* C11: a reader never finds a partially written history file: every change
\* a save_metrics_history run makes to metrics_history.json puts the complete
\* history after the append in the place of the one from before, so that at
\* every point of the run the file holds one or the other, never an empty or
\* cut-off text.
C11_NoPartialFile ==
    [][historyFile' # historyFile =>
          historyFile' = File(json_dump(locals.gen.history))]_vars

-----------------------------------------------------------------------------
(* The order of the steps of one invocation *)

\* main() of generate_report.py: parse, totals, render, archive, persist
GenOrder == <<"parse", "totals", "html", "archive", "save_read", "save_open", "save_write">>

\* main() of analyze_metrics.py: parse, analyze, trend, render
AnaOrder == <<"parse", "analyze", "trends", "report">>

StepOrder(p) == IF p = "gen" THEN GenOrder ELSE AnaOrder

\* the place of a label in the order of its script, 0 outside a run
Position(p, label) ==
    IF \E i \in 1..Len(StepOrder(p)) : StepOrder(p)[i] = label
      THEN CHOOSE i \in 1..Len(StepOrder(p)) : StepOrder(p)[i] = label
      ELSE 0

\* process p takes a step
StepOf(p) == pc'[p] # pc[p]

\* t1 is a reading of the clock before the reading t2
Earlier(t1, t2) == t1.sec <= t2.sec /\ t1.usec < t2.usec

\* the html report on disk is the one this run rendered
RenderedByThisRun ==
    /\ htmlReport.exists
    /\ \E t \in 0..MaxSec :
          htmlReport.doc = generate_html_report(locals.gen.programs_data,
                                                locals.gen.totals, t)

\* an invocation starts at its first step and goes through the steps of its
\* script one after the other, or ends
C12_InOrder ==
    \A p \in {"gen", "ana"} :
       StepOf(p) =>
          \/ pc'[p] = "exited"
          \/ Position(p, pc'[p]) = Position(p, pc[p]) + 1

\* the archive is written only by the archive step, after this run's report
\* was rendered, and before the history is touched
C12_RenderBeforeArchive ==
    archive' # archive =>
       /\ pc.gen = "archive" /\ StepOf("gen")
       /\ RenderedByThisRun
       /\ htmlReport' = htmlReport /\ historyFile' = historyFile

\* the history is touched only by the persist steps, after this run's report
\* was rendered and its archive written; the snapshot is taken after the
\* archive's metadata and is not in the history read from the file
C12_PersistLast ==
    /\ historyFile' # historyFile =>
          /\ pc.gen \in {"save_open", "save_write"} /\ StepOf("gen")
          /\ RenderedByThisRun
          /\ \E t \in 0..MaxSec :
                /\ archive.runs[t].has_metadata
                /\ Earlier(archive.runs[t].metadata.timestamp,
                           Last(locals.gen.history).timestamp)
          /\ htmlReport' = htmlReport /\ archive' = archive
    /\ SaveReadStep =>
          LET h == load_history(historyFile)
          IN  /\ Last(locals'.gen.history) \notin {h[i] : i \in 1..Len(h)}
              /\ disk' = disk

\* the report of the analysis is written after its trends were computed,
\* from the history as the file holds it then; the analysis writes nothing
\* else, so no snapshot of its own is in that history
C12_TrendBeforeReport ==
    /\ pc.ana = "trends" /\ StepOf("ana") =>
          /\ locals'.ana.trends = load_trends(historyFile)
          /\ disk' = disk
    /\ metricsReport' # metricsReport =>
          /\ pc.ana = "report" /\ StepOf("ana")
          /\ \E t \in 0..MaxSec :
                metricsReport'.doc =
                   generate_metrics_report(locals.ana.programs_data, locals.ana.analysis,
                                           locals.ana.trends, t)
    /\ StepOf("ana") =>
          /\ historyFile' = historyFile /\ archive' = archive
          /\ htmlReport' = htmlReport

-----------------------------------------------------------------------------
(* What a run that ends with status 1 leaves on disk *)

\* the positions of a run before its first write: the check of the
\* directory, the parsing, and the totals or the analysis
BeforeWrites(p) ==
    IF p = "gen" THEN {"idle", "exited", "parse", "totals"}
    ELSE {"idle", "exited", "parse", "analyze"}

\* process p ends its run with status 1
ExitsWithOne(p) == StepOf(p) /\ pc'[p] = "exited" /\ exitCode'[p] = 1

\* C13: a run that exits with code 1 (results directory missing, no subject
\* result file found) changes nothing on disk: it ends from a position before
\* the first write of its script, and no step taken from these positions
\* writes the HTML or the text report, creates an archive directory or
\* changes metrics_history.json.
C13_FailedRunWritesNothing ==
    [][\A p \in {"gen", "ana"} :
          /\ ExitsWithOne(p) => pc[p] \in BeforeWrites(p)
          /\ StepOf(p) /\ pc[p] \in BeforeWrites(p) => disk' = disk]_vars

\* C13 witness: on a directory with no subject result file and a stored
\* history, both scripts have ended with status 1; there is no report and no
\* archive, and the history is the stored array.
C13_Witness ==
    /\ dirExists /\ Present(resultFiles) = {}
    /\ pc.gen = "exited" /\ exitCode.gen = 1 /\ runs.gen = 1
    /\ pc.ana = "exited" /\ exitCode.ana = 1 /\ runs.ana = 1
    /\ ~htmlReport.exists /\ ~metricsReport.exists /\ ~archive.exists
    /\ historyFile = File(json_dump(PriorHistory(2)))

=============================================================================
